---- MODULE Spec2Model ----
(***************************************************************************)
(* A model of the CSS selector generator of src/src/index.ts: per-ancestor *)
(* candidate generation, the bottom-up path search with its three limits   *)
(* (All, Two, One) and their fallback closures, the uniqueness test        *)
(* against the document, and the optimize pass.                            *)
(*                                                                         *)
(* A document is a sequence of element records in document order; element  *)
(* e is the index of its record and 0 stands for null.  A selector is kept *)
(* in parsed form: one compound per Node of the path, with the combinator  *)
(* that selector() writes after it.                                        *)
(***************************************************************************)
EXTENDS Integers, Sequences, FiniteSets, TLC

\* ------------------------------------------------------------- bounds
MaxSeed == 6
MaxOptMin == 3
MaxThreshold == 2

\* ---------------------------------------------------------- constants
DefaultSeedMinLength == 1
DefaultOptimizedMinLength == 2
DefaultThreshold == 1000
PenaltyId == 0
PenaltyClass == 1
PenaltyAttr == 2
PenaltyTag == 3
PenaltyAny == 4

All == 0
Two == 1
One == 2

\* ---------------------------------------------------------- documents
El(parent, tag, id, classList, attributes) ==
  [parent |-> parent, tag |-> tag, id |-> id,
   classList |-> classList, attributes |-> attributes]

Attr(name, value, isData) == [name |-> name, value |-> value, isData |-> isData]

\* <div><span><p></p></span></div>
DocSeed ==
  << El(0, "html", "", <<>>, <<>>), El(1, "head", "", <<>>, <<>>),
     El(1, "body", "", <<>>, <<>>), El(3, "div", "", <<>>, <<>>),
     El(4, "span", "", <<>>, <<>>), El(5, "p", "", <<>>, <<>>) >>

\* <div><p></p><p></p><p></p></div>
DocThreshold ==
  << El(0, "html", "", <<>>, <<>>), El(1, "head", "", <<>>, <<>>),
     El(1, "body", "", <<>>, <<>>), El(3, "div", "", <<>>, <<>>),
     El(4, "p", "", <<>>, <<>>), El(4, "p", "", <<>>, <<>>),
     El(4, "p", "", <<>>, <<>>) >>

\* two <div data-x> blocks, each with two <span data-y>
DocData ==
  << El(0, "html", "", <<>>, <<>>), El(1, "head", "", <<>>, <<>>),
     El(1, "body", "", <<>>, <<>>),
     El(3, "div", "", <<>>, << Attr("data-x", << "a" >>, TRUE) >>),
     El(4, "span", "", <<>>, << Attr("data-y", << "1" >>, TRUE) >>),
     El(4, "span", "", <<>>, << Attr("title", << "t" >>, FALSE), Attr("data-y", << "2" >>, TRUE) >>),
     El(3, "div", "", <<>>, << Attr("data-x", << "b" >>, TRUE) >>),
     El(7, "span", "", <<>>, << Attr("data-y", << "1" >>, TRUE) >>),
     El(7, "span", "", <<>>, << Attr("data-y", << "2" >>, TRUE) >>) >>

\* a chain of six elements from <p> up to <html>
DocDeep ==
  << El(0, "html", "", <<>>, <<>>), El(1, "head", "", <<>>, <<>>),
     El(1, "body", "", <<>>, <<>>), El(3, "div", "", <<>>, <<>>),
     El(4, "section", "", <<>>, <<>>), El(5, "span", "", <<>>, <<>>),
     El(6, "p", "", <<>>, <<>>) >>

\* classes, a class shared by <body> and an inner element, and an id
DocClass ==
  << El(0, "html", "", <<>>, <<>>), El(1, "head", "", <<>>, <<>>),
     El(1, "body", "", << "x" >>, <<>>), El(3, "div", "", <<>>, <<>>),
     El(4, "p", "", << "btn", "big" >>, <<>>),
     El(4, "section", "", << "x" >>, <<>>),
     El(6, "div", "", <<>>, <<>>), El(6, "p", "", << "btn" >>, <<>>),
     El(3, "div", "main", <<>>, <<>>) >>

\* an attribute value that holds marks of the selector syntax, as in
\* <span data-k='a"],[id="z'>, and one that holds a quote alone
DocQuote ==
  << El(0, "html", "", <<>>, <<>>), El(1, "head", "", <<>>, <<>>),
     El(1, "body", "", <<>>, <<>>),
     El(3, "span", "", <<>>,
        << Attr("data-k", << "a", "\"", "]", ",", "[", "id", "=", "\"", "z" >>, TRUE) >>),
     El(3, "div", "z", <<>>, <<>>),
     El(5, "span", "", <<>>, << Attr("data-k", << "a", "\"", "b" >>, TRUE) >>) >>

\* a malformed document: one id on two elements
DocDupId ==
  << El(0, "html", "", <<>>, <<>>), El(1, "head", "", <<>>, <<>>),
     El(1, "body", "", <<>>, <<>>), El(3, "div", "a", <<>>, <<>>),
     El(3, "div", "a", <<>>, <<>>), El(5, "p", "", <<>>, <<>>) >>

Docs == { DocSeed, DocThreshold, DocData, DocDeep, DocClass, DocQuote, DocDupId }

Elements(d) == 1..Len(d)

parentElement(d, e) == d[e].parent

documentElement == 1

RECURSIVE bodyOf(_, _)
bodyOf(d, e) ==
  IF e > Len(d) THEN 0
  ELSE IF d[e].tag = "body" /\ d[e].parent = documentElement THEN e
  ELSE bodyOf(d, e + 1)

\* the text of the class attribute: the class names with spaces between
RECURSIVE classText(_, _)
classText(list, k) ==
  IF k > Len(list) THEN <<>>
  ELSE IF k = Len(list) THEN << list[k] >>
  ELSE << list[k], " " >> \o classText(list, k + 1)

\* input.attributes: id and class are attributes as well
attributesOf(d, e) ==
  (IF d[e].id # "" THEN << Attr("id", << d[e].id >>, FALSE) >> ELSE <<>>)
  \o (IF d[e].classList # <<>>
      THEN << Attr("class", classText(d[e].classList, 1), FALSE) >> ELSE <<>>)
  \o d[e].attributes

UniqueIds(d) ==
  \A a, b \in Elements(d) : (d[a].id # "" /\ d[a].id = d[b].id) => a = b

\* ----------------------------------------------------- candidate nodes
\* Text is a sequence of tokens: the marks of the selector syntax, and
\* identifiers and numbers as one token each.  An attribute value is text
\* too, since nothing keeps a mark of the syntax out of it.
NoLevel == -1

Node(name, penalty) == [name |-> name, penalty |-> penalty, level |-> NoLevel]

Accepts(filter, s) == s \notin filter

\* cssesc(s, {isIdentifier: true}) of an identifier that needs no escape
cssesc(s) == << s >>

id(d, e) ==
  IF d[e].id # "" THEN << Node(<< "#" >> \o cssesc(d[e].id), PenaltyId) >> ELSE <<>>

RECURSIVE classNamesFrom(_, _, _)
classNamesFrom(cfg, list, k) ==
  IF k > Len(list) THEN <<>>
  ELSE (IF Accepts(cfg.className, list[k])
        THEN << Node(<< "." >> \o cssesc(list[k]), PenaltyClass) >> ELSE <<>>)
       \o classNamesFrom(cfg, list, k + 1)

classNames(cfg, d, e) == classNamesFrom(cfg, d[e].classList, 1)

\* `[` + attribute.name + `="` + attribute.value + `"]`
attributeText(a) == << "[", a.name, "=", "\"" >> \o a.value \o << "\"", "]" >>

RECURSIVE dataAttributesFrom(_, _, _)
dataAttributesFrom(cfg, list, k) ==
  IF k > Len(list) THEN <<>>
  ELSE (IF Accepts(cfg.dataAttribute, list[k].name) /\ list[k].isData
        THEN << Node(attributeText(list[k]), PenaltyAttr) >>
        ELSE <<>>)
       \o dataAttributesFrom(cfg, list, k + 1)

dataAttributes(cfg, d, e) == dataAttributesFrom(cfg, attributesOf(d, e), 1)

tagName(cfg, d, e) ==
  IF Accepts(cfg.tagName, d[e].tag)
  THEN << Node(<< d[e].tag >>, PenaltyTag) >> ELSE <<>>

any == Node(<< "*" >>, PenaltyAny)

\* the 1-based position among the element children of the parent node; the
\* parent node of <html> is the document, whose only element child it is
index(d, e) == Cardinality({ c \in 1..e : d[c].parent = d[e].parent })

nthChild(node, i) ==
  Node(node.name \o << ":nth-child(", ToString(i), ")" >>, node.penalty + 1)

dispensableNth(node) == node.name # << "html" >> /\ node.name[1] # "#"

\* maybe(id) || maybe(...classNames) || maybe(...dataAttributes)
\*           || maybe(tagName) || [any()]
Tier(cfg, d, e) ==
  IF id(d, e) # <<>> THEN id(d, e)
  ELSE IF classNames(cfg, d, e) # <<>> THEN classNames(cfg, d, e)
  ELSE IF dataAttributes(cfg, d, e) # <<>> THEN dataAttributes(cfg, d, e)
  ELSE IF tagName(cfg, d, e) # <<>> THEN tagName(cfg, d, e)
  ELSE << any >>

RECURSIVE NthOfDispensable(_, _, _)
NthOfDispensable(level, nth, k) ==
  IF k > Len(level) THEN <<>>
  ELSE (IF dispensableNth(level[k]) THEN << nthChild(level[k], nth) >> ELSE <<>>)
       \o NthOfDispensable(level, nth, k + 1)

Limited(limit, level, nth) ==
  IF limit = All
  THEN (IF nth # 0 THEN level \o NthOfDispensable(level, nth, 1) ELSE level)
  ELSE IF limit = Two
  THEN (IF nth # 0
        THEN SubSeq(level, 1, 1) \o NthOfDispensable(SubSeq(level, 1, 1), nth, 1)
        ELSE SubSeq(level, 1, 1))
  ELSE (IF nth # 0 /\ dispensableNth(level[1])
        THEN << nthChild(level[1], nth) >>
        ELSE SubSeq(level, 1, 1))

WithLevel(level, i) == [k \in 1..Len(level) |-> [level[k] EXCEPT !.level = i]]

\* one pass of the loop body of bottomUpSearch up to stack.push(level)
Level(cfg, limit, d, e, i) ==
  WithLevel(Limited(limit, Tier(cfg, d, e), index(d, e)), i)

\* ------------------------------------------------------------ selector
\* the loop of selector(path) from its Node k on: query is the text so far
\* and node the Node before
RECURSIVE selectorFrom(_, _, _, _)
selectorFrom(path, k, node, query) ==
  IF k > Len(path) THEN query
  ELSE selectorFrom(path, k + 1, path[k],
                    IF node.level = path[k].level - 1
                    THEN path[k].name \o << ">" >> \o query
                    ELSE path[k].name \o << " " >> \o query)

\* selector(path) of a path that has a first Node
selector(path) == selectorFrom(path, 2, path[1], path[1].name)

RECURSIVE penalty(_)
penalty(path) ==
  IF path = <<>> THEN 0 ELSE Head(path).penalty + penalty(Tail(path))

\* ------------------------------------- the document's selector engine
\* document.querySelectorAll and document.querySelector read the text of a
\* selector again: a list of complex selectors, each a chain of compounds.
Marks == { "#", ".", "[", "]", "=", "\"", ",", ">", " ", ":nth-child(", ")", "*" }

IsIdent(ts, p) == p <= Len(ts) /\ ts[p] \notin Marks

Is(ts, p, mark) == p <= Len(ts) /\ ts[p] = mark

NoParse == [ok |-> FALSE, next |-> 0, kind |-> "", val |-> "", arg |-> <<>>, nth |-> ""]

Simple(next, kind, val, arg) ==
  [ok |-> TRUE, next |-> next, kind |-> kind, val |-> val, arg |-> arg, nth |-> ""]

\* the first closing quote at or after p, 0 if there is none
RECURSIVE QuoteFrom(_, _)
QuoteFrom(ts, p) ==
  IF p > Len(ts) THEN 0 ELSE IF ts[p] = "\"" THEN p ELSE QuoteFrom(ts, p + 1)

ParseSimple(ts, p) ==
  IF Is(ts, p, "#") /\ IsIdent(ts, p + 1) THEN Simple(p + 2, "id", ts[p + 1], <<>>)
  ELSE IF Is(ts, p, ".") /\ IsIdent(ts, p + 1) THEN Simple(p + 2, "class", ts[p + 1], <<>>)
  ELSE IF Is(ts, p, "*") THEN Simple(p + 1, "any", "*", <<>>)
  ELSE IF IsIdent(ts, p) THEN Simple(p + 1, "tag", ts[p], <<>>)
  ELSE IF Is(ts, p, "[") /\ IsIdent(ts, p + 1) /\ Is(ts, p + 2, "=") /\ Is(ts, p + 3, "\"")
  THEN LET q == QuoteFrom(ts, p + 4)
       IN  IF q # 0 /\ Is(ts, q + 1, "]")
           THEN Simple(q + 2, "attr", ts[p + 1], SubSeq(ts, p + 4, q - 1))
           ELSE NoParse
  ELSE NoParse

\* a compound whose simple selector s has been read: :nth-child may follow
NthAfter(ts, s) ==
  IF ~s.ok THEN NoParse
  ELSE IF Is(ts, s.next, ":nth-child(")
  THEN (IF IsIdent(ts, s.next + 1) /\ Is(ts, s.next + 2, ")")
        THEN [s EXCEPT !.next = s.next + 3, !.nth = ts[s.next + 1]]
        ELSE NoParse)
  ELSE s

ParseCompound(ts, p) == NthAfter(ts, ParseSimple(ts, p))

\* a complex selector read from p on: its compounds as written, the
\* outermost first, each with the combinator written before it
RECURSIVE ParseComplex(_, _, _)
\* the chain whose first compound c has been read
ChainAfter(ts, comb, c) ==
  IF ~c.ok THEN [ok |-> FALSE, next |-> 0, chain |-> <<>>]
  ELSE IF Is(ts, c.next, ">") \/ Is(ts, c.next, " ")
  THEN LET rest == ParseComplex(ts, c.next + 1, ts[c.next])
       IN  IF rest.ok
           THEN [rest EXCEPT !.chain = << [comb |-> comb, c |-> c] >> \o @]
           ELSE rest
  ELSE [ok |-> TRUE, next |-> c.next, chain |-> << [comb |-> comb, c |-> c] >>]

ParseComplex(ts, p, comb) == ChainAfter(ts, comb, ParseCompound(ts, p))

\* a selector list read from p on
RECURSIVE ParseList(_, _)
\* the list whose first complex selector x has been read
ListAfter(ts, x) ==
  IF ~x.ok THEN [ok |-> FALSE, list |-> <<>>]
  ELSE IF x.next > Len(ts) THEN [ok |-> TRUE, list |-> << x.chain >>]
  ELSE IF Is(ts, x.next, ",")
  THEN LET rest == ParseList(ts, x.next + 1)
       IN  IF rest.ok THEN [rest EXCEPT !.list = << x.chain >> \o @] ELSE rest
  ELSE [ok |-> FALSE, list |-> <<>>]

ParseList(ts, p) == ListAfter(ts, ParseComplex(ts, p, ""))

ValidSelector(ts) == ParseList(ts, 1).ok

Range(s) == { s[k] : k \in 1..Len(s) }

MatchesCompound(d, e, c) ==
  /\ CASE c.kind = "id" -> d[e].id = c.val
       [] c.kind = "class" -> \E k \in 1..Len(d[e].classList) : d[e].classList[k] = c.val
       [] c.kind = "attr" ->
            \E a \in Range(attributesOf(d, e)) : a.name = c.val /\ a.value = c.arg
       [] c.kind = "tag" -> d[e].tag = c.val
       [] OTHER -> TRUE
  /\ c.nth # "" => ToString(index(d, e)) = c.nth

RECURSIVE Ancestors(_, _)
Ancestors(d, e) ==
  IF d[e].parent = 0 THEN {} ELSE {d[e].parent} \cup Ancestors(d, d[e].parent)

\* e matches compound k of the chain and its ancestors match the compounds
\* written before it
RECURSIVE Matches(_, _, _, _)
Matches(d, e, chain, k) ==
  /\ MatchesCompound(d, e, chain[k].c)
  /\ \/ k = 1
     \/ /\ chain[k].comb = ">"
        /\ d[e].parent # 0
        /\ Matches(d, d[e].parent, chain, k - 1)
     \/ /\ chain[k].comb = " "
        /\ \E a \in Ancestors(d, e) : Matches(d, a, chain, k - 1)

\* the elements a valid selector selects
\* the elements that match one of the complex selectors of a parsed list
Selected(d, list) ==
  { e \in Elements(d) : \E chain \in Range(list) : Matches(d, e, chain, Len(chain)) }

\* the elements a valid selector selects
querySelectorAll(d, ts) == Selected(d, ParseList(ts, 1).list)

Min(S) == CHOOSE x \in S : \A y \in S : x <= y

\* the first of them in document order, 0 for null
First(S) == IF S = {} THEN 0 ELSE Min(S)

querySelector(d, ts) == First(querySelectorAll(d, ts))

\* unique(path): "syntax" and "zero" stand for the two errors thrown, by
\* querySelectorAll and by unique itself
Verdict(n) == IF n = 0 THEN "zero" ELSE IF n = 1 THEN "yes" ELSE "no"

Counted(d, parsed) ==
  IF ~parsed.ok THEN "syntax" ELSE Verdict(Cardinality(Selected(d, parsed.list)))

unique(d, path) == Counted(d, ParseList(selector(path), 1))

same(d, path, input) == querySelector(d, selector(path)) = input

\* ------------------------------------------------ combinations, sort
RECURSIVE combinationsOver(_, _, _)
RECURSIVE combinations(_, _)
combinations(stack, path) ==
  IF Len(stack) > 0 THEN combinationsOver(stack, path, 1) ELSE << path >>
\* the for loop of combinations over stack[0], from its k-th node on
combinationsOver(stack, path, k) ==
  IF k > Len(stack[1]) THEN <<>>
  ELSE combinations(Tail(stack), Append(path, stack[1][k]))
       \o combinationsOver(stack, path, k + 1)

\* where a stable sort by ascending penalty puts p among the sorted paths
RECURSIVE Insert(_, _)
Insert(sorted, p) ==
  IF sorted = <<>> THEN << p >>
  ELSE IF penalty(sorted[Len(sorted)]) <= penalty(p) THEN Append(sorted, p)
  ELSE Append(Insert(SubSeq(sorted, 1, Len(sorted) - 1), p), sorted[Len(sorted)])

RECURSIVE SortFrom(_, _, _)
SortFrom(paths, k, acc) ==
  IF k > Len(paths) THEN acc ELSE SortFrom(paths, k + 1, Insert(acc, paths[k]))

\* the comparator reversed: penalty(b) - penalty(a)
RECURSIVE InsertDescending(_, _)
InsertDescending(sorted, p) ==
  IF sorted = <<>> THEN << p >>
  ELSE IF penalty(sorted[Len(sorted)]) >= penalty(p) THEN Append(sorted, p)
  ELSE Append(InsertDescending(SubSeq(sorted, 1, Len(sorted) - 1), p),
              sorted[Len(sorted)])

RECURSIVE SortDescendingFrom(_, _, _)
SortDescendingFrom(paths, k, acc) ==
  IF k > Len(paths) THEN acc
  ELSE SortDescendingFrom(paths, k + 1, InsertDescending(acc, paths[k]))

sortDescending(paths) == SortDescendingFrom(paths, 1, <<>>)

\* Array.from(paths).sort((a, b) => penalty(a) - penalty(b)), a stable sort
sort(paths) == SortFrom(paths, 1, <<>>)

\* newPath = [...path]; newPath.splice(i, 1), with i counted from 1 here
splice(path, i) == SubSeq(path, 1, i - 1) \o SubSeq(path, i + 1, Len(path))

\* ------------------------------------------------------- configuration
Keys == { "root", "className", "dataAttribute", "tagName", "hook",
          "seedMinLength", "optimizedMinLength", "threshold" }

\* A filter callback is the set of names it rejects.  hook belongs to the
\* tagName callback: a callback with hook set calls generate itself before
\* it answers.
defaults(d) ==
  [root |-> bodyOf(d, 1), className |-> {}, dataAttribute |-> {}, tagName |-> {},
   hook |-> FALSE, seedMinLength |-> DefaultSeedMinLength,
   optimizedMinLength |-> DefaultOptimizedMinLength, threshold |-> DefaultThreshold]

\* {...defaults, ...options}
Merge(defs, options) ==
  [k \in Keys |-> IF k \in DOMAIN options THEN options[k] ELSE defs[k]]

\* the Partial<Options> that overrides exactly what differs from the defaults
Partial(d, full) ==
  [k \in { q \in Keys : full[q] # defaults(d)[q] } |-> full[k]]

\* --------------------------------------------------------------- state
VARIABLES
  document,       \* the live document, unchanged during a call
  config,         \* the module-level slot `let config: Options`
  suspended,      \* the invocations waiting inside a filter callback
  input,          \* the element the running invocation was given
  options,        \* the Partial<Options> it was given
  own,            \* what the running invocation merged from its options
  phase,          \* "start", "search", "optimize" or "done"
  frames,         \* the activations of bottomUpSearch, the innermost last
  found,          \* the path the search returned
  ostack,         \* the activations of optimize, the innermost last
  optimized,      \* the paths optimize has yielded, in order
  result,         \* what the invocation returned or threw
  searchQueries,  \* calls of unique made by findUniquePath
  optQueries,     \* calls of unique made by optimize
  starts,         \* how often bottomUpSearch was called with each limit
  narrowest,      \* the narrowest limit findUniquePath has run under
  widened         \* a step ran under a limit wider than narrowest

globals == << document, config, suspended >>
locals == << input, options, own, phase, frames, found, ostack, optimized, result,
             searchQueries, optQueries, starts, narrowest, widened >>
vars == << document, config, suspended, input, options, own, phase, frames, found,
           ostack, optimized, result, searchQueries, optQueries, starts, narrowest,
           widened >>

Undefined == [k \in Keys |-> "undefined"]

NoResult == [status |-> "none", sel |-> <<>>, path |-> <<>>]

Thrown(status) == [status |-> status, sel |-> <<>>, path |-> <<>>]

Returned(path) == [status |-> "ok", sel |-> selector(path), path |-> path]

\* return input.tagName.toLowerCase() for the <html> element
ReturnedHtml ==
  [status |-> "ok", sel |-> << document[input].tag >>, path |-> <<>>]

NewFrame(limit, e) ==
  [limit |-> limit, stack |-> <<>>, current |-> e, i |-> 0, pc |-> "loop",
   site |-> "loop", paths |-> <<>>, k |-> 0, tested |-> 0, ret |-> <<>>,
   direct |-> FALSE, cb |-> <<>>]

Top == frames[Len(frames)]

SetTop(f) == [frames EXCEPT ![Len(frames)] = f]

Max(a, b) == IF a >= b THEN a ELSE b

\* ------------------------------------------------------------- inputs
Roots(d) == { bodyOf(d, 1), documentElement, bodyOf(d, 1) + 1 }

RejectMost == { "head", "body", "div", "section", "span", "p" }

Filters ==
  { [className |-> {}, dataAttribute |-> {}, tagName |-> {}],
    [className |-> {}, dataAttribute |-> {}, tagName |-> { "div" }],
    [className |-> {}, dataAttribute |-> {}, tagName |-> RejectMost],
    [className |-> { "x", "btn", "big" }, dataAttribute |-> {}, tagName |-> {}],
    [className |-> {}, dataAttribute |-> { "data-x" }, tagName |-> {}] }

SeedMinLengths == DefaultSeedMinLength..MaxSeed

OptimizedMinLengths == DefaultOptimizedMinLength..MaxOptMin

Thresholds == 1..MaxThreshold \cup { DefaultThreshold }

FullConfigs(d) ==
  { [root |-> r, className |-> f.className, dataAttribute |-> f.dataAttribute,
     tagName |-> f.tagName, hook |-> FALSE, seedMinLength |-> s,
     optimizedMinLength |-> o, threshold |-> t] :
    r \in Roots(d), f \in Filters, s \in SeedMinLengths,
    o \in OptimizedMinLengths, t \in Thresholds }

Fresh ==
  /\ own = Undefined
  /\ phase = "start"
  /\ frames = <<>>
  /\ found = <<>>
  /\ ostack = <<>>
  /\ optimized = <<>>
  /\ result = NoResult
  /\ searchQueries = 0
  /\ optQueries = 0
  /\ starts = [l \in { All, Two, One } |-> 0]
  /\ narrowest = All
  /\ widened = FALSE

Init ==
  /\ document \in Docs
  /\ config = Undefined
  /\ suspended = <<>>
  /\ input \in Elements(document)
  /\ options \in { Partial(document, f) : f \in FullConfigs(document) }
  /\ Fresh

\* ------------------------------------------------------------ generate
Throw(status) ==
  /\ phase' = "done"
  /\ result' = Thrown(status)
  /\ frames' = <<>>
  /\ ostack' = <<>>

\* lines 29-53: the <html> shortcut, the merge into the shared slot and the
\* call of bottomUpSearch(input, Limit.All, ...)
Start ==
  /\ phase = "start"
  /\ IF document[input].tag = "html"
     THEN /\ phase' = "done"
          /\ result' = ReturnedHtml
          /\ UNCHANGED << config, own, frames, starts >>
     ELSE /\ config' = Merge(defaults(document), options)
          /\ own' = Merge(defaults(document), options)
          /\ frames' = << NewFrame(All, input) >>
          /\ starts' = [starts EXCEPT ![All] = @ + 1]
          /\ phase' = "search"
          /\ UNCHANGED result
  /\ UNCHANGED << document, suspended, input, options, found, ostack, optimized,
                  searchQueries, optQueries, narrowest, widened >>

\* ------------------------------------------------------ bottomUpSearch
\* while (current && current !== config.root.parentElement)
LoopCond(f) ==
  /\ f.current # 0
  /\ f.current # parentElement(document, config.root)

\* the tagName callback is reached: the tiers before it are empty
TagTierReached(f) ==
  /\ id(document, f.current) = <<>>
  /\ classNames(config, document, f.current) = <<>>
  /\ dataAttributes(config, document, f.current) = <<>>

HookDue(f) == f.cb = <<>> /\ LoopCond(f) /\ config.hook /\ TagTierReached(f)

\* what findUniquePath's caller does with its value r (<<>> for null):
\* in the loop a path breaks out and is returned, null moves one ancestor
\* up; after the loop the value is returned as it is
AfterFind(f, r) ==
  IF f.site = "loop" /\ r = <<>>
  THEN [f EXCEPT !.pc = "loop", !.current = parentElement(document, f.current),
                 !.i = @ + 1, !.paths = <<>>, !.k = 0, !.tested = 0]
  ELSE [f EXCEPT !.pc = "ret", !.ret = r, !.paths = <<>>, !.k = 0]

\* lines 74-116: one pass of the loop body up to the call of findUniquePath,
\* or the end of the loop.  f.cb holds the configuration the candidates are
\* filtered with when a callback of this pass has called generate.
Loop ==
  /\ phase = "search"
  /\ frames # <<>>
  /\ Top.pc = "loop"
  /\ ~HookDue(Top)
  /\ LET f == Top
         cfgL == IF f.cb # <<>> THEN f.cb[1] ELSE config
         pushed == [f EXCEPT !.stack = Append(@, Level(cfgL, f.limit, document,
                                                       f.current, f.i)),
                             !.cb = <<>>]
     IN  /\ frames' =
              SetTop(IF f.cb # <<>> \/ LoopCond(f)
                     THEN (IF Len(pushed.stack) >= config.seedMinLength
                           THEN [pushed EXCEPT !.pc = "enter", !.site = "loop"]
                           ELSE [pushed EXCEPT
                                   !.current = parentElement(document, f.current),
                                   !.i = @ + 1])
                     ELSE [f EXCEPT !.pc = "enter", !.site = "final"])
         /\ widened' = (widened \/ ((f.cb # <<>> \/ LoopCond(f)) /\ f.limit < narrowest))
  /\ UNCHANGED << globals, input, options, own, phase, found, ostack, optimized,
                  result, searchQueries, optQueries, starts, narrowest >>

\* ------------------------------------------------------ findUniquePath
\* the threshold test with >= for >
OverBudgetInclusive(paths) == Len(paths) >= config.threshold

\* the threshold test one combination late
OverBudgetOffByOne(paths) == Len(paths) > config.threshold + 1

OverBudget(paths) == Len(paths) > config.threshold

\* lines 126-130: the sorted combinations and the threshold test; over the
\* threshold the fallback closure, if any, calls bottomUpSearch with the
\* next limit
FindEnter ==
  /\ phase = "search"
  /\ frames # <<>>
  /\ Top.pc = "enter"
  /\ LET f == Top
         paths == sort(combinations(f.stack, <<>>))
     IN  /\ IF OverBudget(paths)
            THEN IF f.limit # One
                 THEN /\ frames' = Append(SetTop([f EXCEPT !.pc = "wait", !.tested = 0]),
                                          NewFrame(f.limit + 1, input))
                      /\ starts' = [starts EXCEPT ![f.limit + 1] = @ + 1]
                 ELSE /\ frames' = SetTop(AfterFind([f EXCEPT !.tested = 0,
                                                              !.direct = FALSE], <<>>))
                      /\ UNCHANGED starts
            ELSE /\ frames' = SetTop([f EXCEPT !.pc = "find", !.paths = paths,
                                               !.k = 1, !.tested = 0])
                 /\ UNCHANGED starts
         /\ narrowest' = Max(narrowest, f.limit)
         /\ widened' = (widened \/ f.limit < narrowest)
  /\ UNCHANGED << globals, input, options, own, phase, found, ostack, optimized,
                  result, searchQueries, optQueries >>

\* lines 132-136: unique(candidate) for the next candidate
TestCandidate ==
  /\ phase = "search"
  /\ frames # <<>>
  /\ Top.pc = "find"
  /\ Top.k <= Len(Top.paths)
  /\ LET f == Top
         candidate == f.paths[f.k]
     IN  IF candidate = <<>>
         THEN \* selector([]) reads path[0].name of an empty path
              /\ Throw("TypeError")
              /\ UNCHANGED searchQueries
         ELSE /\ searchQueries' = searchQueries + 1
              /\ CASE unique(document, candidate) = "syntax" -> Throw("SyntaxError")
                   [] unique(document, candidate) = "zero" -> Throw("NoMatch")
                   [] unique(document, candidate) = "yes" ->
                        /\ frames' = SetTop(AfterFind([f EXCEPT !.tested = @ + 1,
                                                                !.direct = TRUE],
                                                      candidate))
                        /\ UNCHANGED << phase, result, ostack >>
                   [] OTHER ->
                        /\ frames' = SetTop([f EXCEPT !.tested = @ + 1, !.k = @ + 1])
                        /\ UNCHANGED << phase, result, ostack >>
  /\ UNCHANGED << globals, input, options, own, found, optimized, optQueries,
                  starts, narrowest, widened >>

\* line 138: no candidate was unique
FindExhausted ==
  /\ phase = "search"
  /\ frames # <<>>
  /\ Top.pc = "find"
  /\ Top.k > Len(Top.paths)
  /\ frames' = SetTop(AfterFind([Top EXCEPT !.direct = TRUE], <<>>))
  /\ UNCHANGED << globals, input, options, own, phase, found, ostack, optimized,
                  result, searchQueries, optQueries, starts, narrowest, widened >>

\* line 122: bottomUpSearch returns, to the findUniquePath that called it as
\* its fallback or to generate (lines 55-64)
Return ==
  /\ phase = "search"
  /\ frames # <<>>
  /\ Top.pc = "ret"
  /\ IF Len(frames) = 1
     THEN IF Top.ret # <<>>
          THEN /\ phase' = "optimize"
               /\ found' = Top.ret
               /\ ostack' = << [path |-> Top.ret, i |-> 2] >>
               /\ frames' = <<>>
               /\ UNCHANGED result
          ELSE /\ Throw("NotFound")
               /\ UNCHANGED found
     ELSE /\ frames' = Append(SubSeq(frames, 1, Len(frames) - 2),
                              AfterFind([frames[Len(frames) - 1] EXCEPT
                                           !.direct = FALSE], Top.ret))
          /\ UNCHANGED << phase, found, ostack, result >>
  /\ UNCHANGED << globals, input, options, own, optimized, searchQueries,
                  optQueries, starts, narrowest, widened >>

\* ------------------------------------------------------------ optimize
\* line 290
OptimizeCond(path) == Len(path) > 2 /\ Len(path) > config.optimizedMinLength

\* the loop run to i < path.length, which removes the last Node too
OptimizeMoreToEnd(o) == OptimizeCond(o.path) /\ o.i <= Len(o.path)

\* for (let i = 1; i < path.length - 1; i++), with i counted from 1 here
OptimizeMore(o) == OptimizeCond(o.path) /\ o.i <= Len(o.path) - 1

\* lines 292-298: one removal, tested and, if accepted, yielded and optimized
OptimizeTry ==
  /\ phase = "optimize"
  /\ ostack # <<>>
  /\ OptimizeMore(ostack[Len(ostack)])
  /\ LET o == ostack[Len(ostack)]
         newPath == splice(o.path, o.i)
         next == [ostack EXCEPT ![Len(ostack)].i = @ + 1]
     IN  /\ optQueries' = optQueries + 1
         /\ IF unique(document, newPath) \in { "syntax", "zero" }
            THEN /\ Throw(IF unique(document, newPath) = "zero"
                          THEN "NoMatch" ELSE "SyntaxError")
                 /\ UNCHANGED optimized
            ELSE IF unique(document, newPath) = "yes" /\ same(document, newPath, input)
            THEN /\ optimized' = Append(optimized, newPath)
                 /\ ostack' = Append(next, [path |-> newPath, i |-> 2])
                 /\ UNCHANGED << phase, result, frames >>
            ELSE /\ ostack' = next
                 /\ UNCHANGED << phase, result, frames, optimized >>
  /\ UNCHANGED << globals, input, options, own, found, searchQueries, starts,
                  narrowest, widened >>

\* the generator of one optimize call is done
OptimizeReturn ==
  /\ phase = "optimize"
  /\ ostack # <<>>
  /\ ~OptimizeMore(ostack[Len(ostack)])
  /\ ostack' = SubSeq(ostack, 1, Len(ostack) - 1)
  /\ UNCHANGED << globals, input, options, own, phase, frames, found, optimized,
                  result, searchQueries, optQueries, starts, narrowest, widened >>

\* optimized[0] taken without the test of optimized.length
FinalPathNoGuard(path, sorted) == IF Len(sorted) > 0 THEN sorted[1] ELSE <<>>

\* lines 56-60
FinalPath(path, sorted) == IF Len(sorted) > 0 THEN sorted[1] ELSE path

\* lines 56-62: sort what optimize yielded and render the cheapest
Finish ==
  /\ phase = "optimize"
  /\ ostack = <<>>
  /\ IF FinalPath(found, sort(optimized)) = <<>>
     THEN \* selector reads path[0].name
          Throw("TypeError")
     ELSE /\ phase' = "done"
          /\ result' = Returned(FinalPath(found, sort(optimized)))
          /\ UNCHANGED << frames, ostack >>
  /\ UNCHANGED << globals, input, options, own, found, optimized,
                  searchQueries, optQueries, starts, narrowest, widened >>

Next ==
  \/ Start
  \/ Loop
  \/ FindEnter
  \/ TestCandidate
  \/ FindExhausted
  \/ Return
  \/ OptimizeTry
  \/ OptimizeReturn
  \/ Finish

Spec == Init /\ [][Next]_vars

\* ------------------------------------- generate called from a callback
\* The only interleaving synchronous code allows: config.tagName, called by
\* tagName(current), calls generate on another element with other options
\* and answers when that call has returned.
NestedInputs(d) == { documentElement, Len(d) - 1, Len(d) }

NestedConfigs(d) ==
  { defaults(d),
    [defaults(d) EXCEPT !.threshold = 1],
    [defaults(d) EXCEPT !.seedMinLength = 3],
    [defaults(d) EXCEPT !.root = documentElement],
    [defaults(d) EXCEPT !.tagName = RejectMost] }

HookConfigs(d) ==
  { [defaults(d) EXCEPT !.hook = TRUE, !.tagName = t, !.seedMinLength = s,
                        !.threshold = th] :
    t \in { {}, { "div" } }, s \in { DefaultSeedMinLength, 3 }, th \in Thresholds }

InitNested ==
  /\ document \in Docs
  /\ config = Undefined
  /\ suspended = <<>>
  /\ input \in Elements(document)
  /\ options \in { Partial(document, f) : f \in HookConfigs(document) }
  /\ Fresh

\* the running invocation as it waits in its callback; cb keeps the
\* configuration whose callbacks the interrupted pass of the loop is using
Saved ==
  [input |-> input, options |-> options, own |-> own, phase |-> phase,
   frames |-> SetTop([Top EXCEPT !.cb = << config >>]), found |-> found,
   ostack |-> ostack, optimized |-> optimized, result |-> result,
   searchQueries |-> searchQueries, optQueries |-> optQueries, starts |-> starts,
   narrowest |-> narrowest, widened |-> widened]

CallHook ==
  /\ phase = "search"
  /\ frames # <<>>
  /\ Top.pc = "loop"
  /\ HookDue(Top)
  /\ suspended' = Append(suspended, Saved)
  /\ input' \in NestedInputs(document)
  /\ options' \in { Partial(document, f) : f \in NestedConfigs(document) }
  /\ own' = Undefined
  /\ phase' = "start"
  /\ frames' = <<>>
  /\ found' = <<>>
  /\ ostack' = <<>>
  /\ optimized' = <<>>
  /\ result' = NoResult
  /\ searchQueries' = 0
  /\ optQueries' = 0
  /\ starts' = [l \in { All, Two, One } |-> 0]
  /\ narrowest' = All
  /\ widened' = FALSE
  /\ UNCHANGED << document, config >>

\* the nested call is over: its value goes to the callback, its error
\* through the callback and the waiting invocation to that one's caller
NestedReturn ==
  /\ phase = "done"
  /\ suspended # <<>>
  /\ LET s == suspended[Len(suspended)]
     IN  /\ input' = s.input
         /\ options' = s.options
         /\ own' = s.own
         /\ found' = s.found
         /\ ostack' = s.ostack
         /\ optimized' = s.optimized
         /\ searchQueries' = s.searchQueries
         /\ optQueries' = s.optQueries
         /\ starts' = s.starts
         /\ narrowest' = s.narrowest
         /\ widened' = s.widened
         /\ IF result.status = "ok"
            THEN /\ phase' = s.phase
                 /\ frames' = s.frames
                 /\ result' = s.result
            ELSE /\ phase' = "done"
                 /\ frames' = <<>>
                 /\ result' = result
  /\ suspended' = SubSeq(suspended, 1, Len(suspended) - 1)
  /\ UNCHANGED << document, config >>

NextNested ==
  \/ Start
  \/ Loop
  \/ FindEnter
  \/ TestCandidate
  \/ FindExhausted
  \/ Return
  \/ OptimizeTry
  \/ OptimizeReturn
  \/ Finish
  \/ CallHook
  \/ NestedReturn

SpecNested == InitNested /\ [][NextNested]_vars

\* -------------------------------------------------------------- claims
\* the ancestor depths bottomUpSearch walks from e up to the root boundary
RECURSIVE Depths(_, _, _)
Depths(d, e, root) ==
  IF e = 0 \/ e = parentElement(d, root) THEN 0
  ELSE 1 + Depths(d, parentElement(d, e), root)

\* the stack a whole walk under one limit builds
RECURSIVE FullStack(_, _, _, _, _)
FullStack(cfg, limit, d, e, i) ==
  IF e = 0 \/ e = parentElement(d, cfg.root) THEN <<>>
  ELSE << Level(cfg, limit, d, e, i) >>
       \o FullStack(cfg, limit, d, parentElement(d, e), i + 1)

\* the one combination of limit One's stack over the whole ancestor chain
OneChain == combinations(FullStack(own, One, document, input, 0), <<>>)[1]

Searched == starts[All] > 0

Done == phase = "done" /\ suspended = <<>>

\* C1: whenever generate returns a selector, the document's elements that
\* match it are exactly the target, on the <html> shortcut, for a path
\* returned as found and for a path taken from optimize
C1_SelectsExactlyTheTarget ==
  (phase = "done" /\ result.status = "ok")
    => querySelectorAll(document, result.sel) = { input }

\* C2 as claimed: with unique ids, the default root and a threshold of at
\* least 1, generate never ends with "Selector was not found"
C2_NeverNotFound ==
  (Done /\ Searched /\ UniqueIds(document) /\ "root" \notin DOMAIN options
     /\ own.threshold >= 1)
    => result.status # "NotFound"

\* C2 amended: with the default root and a threshold of at least 1, limit
\* One never exceeds the threshold, and generate does not end with
\* "Selector was not found" whenever the path limit One builds over the
\* whole ancestor chain is unique
C2_FoundWhenOneChainUnique ==
  /\ \A k \in 1..Len(frames) :
       (frames[k].limit = One /\ frames[k].pc = "enter")
         => Len(combinations(frames[k].stack, <<>>)) <= config.threshold
  /\ (Done /\ Searched /\ "root" \notin DOMAIN options /\ own.threshold >= 1
        /\ unique(document, OneChain) = "yes")
       => result.status # "NotFound"

\* C2 happens: limits All and Two were over the threshold and the selector
\* came from limit One
C2_Witness ==
  /\ Done
  /\ "root" \notin DOMAIN options
  /\ result.status = "ok"
  /\ starts[One] > 0
  /\ unique(document, OneChain) = "yes"

\* C3: one call of findUniquePath makes at most threshold calls of unique,
\* none when its combinations outnumber the threshold and at most one per
\* combination otherwise
C3_BudgetRespected ==
  \A k \in 1..Len(frames) :
    LET f == frames[k]
        n == Len(combinations(f.stack, <<>>))
    IN  /\ f.tested <= config.threshold
        /\ f.pc \in { "find", "wait", "ret" } =>
             /\ f.tested <= n
             /\ n > config.threshold => f.tested = 0
        /\ f.pc = "find" => f.tested = f.k - 1

\* C3 happens: a call that has used its whole budget of two or more
C3_Witness ==
  \E k \in 1..Len(frames) :
    /\ frames[k].pc = "find"
    /\ frames[k].tested = config.threshold
    /\ frames[k].tested >= 2

\* C4: once the search has found a path and optimize has run without an
\* error, generate renders a path that costs no more than the path found,
\* and renders the path found when optimize yielded nothing
C4_MinimizerNeverWorse ==
  (phase = "done" /\ found # <<>> /\ result.status \notin { "NoMatch", "SyntaxError" })
    => /\ result.status = "ok"
       /\ penalty(result.path) <= penalty(found)
       /\ optimized = <<>> => result.path = found

\* C4 happens: optimize yielded paths and the cheapest was rendered
C4_Witness ==
  /\ phase = "done"
  /\ result.status = "ok"
  /\ Len(optimized) >= 2
  /\ penalty(result.path) < penalty(found)

\* C5: every step of an invocation reads the configuration that this
\* invocation merged from its own options
C5_ConfigIsOwn ==
  phase \in { "search", "optimize" } =>
    \A k \in Keys \ { "hook" } : config[k] = own[k]

\* C6: the not-found error comes only after all three limits have been run
C6_NotFoundAfterAllLimits ==
  (phase = "done" /\ result.status = "NotFound")
    => \A l \in { All, Two, One } : starts[l] >= 1

\* C7: the unique calls of the search phase number at most
\* threshold x depths x 3
C7_SearchQueriesBounded ==
  Searched =>
    searchQueries <= own.threshold * Depths(document, input, own.root) * 3

\* C8: the limit only narrows and each limit is started at most once
C8_LimitsOnlyNarrow ==
  /\ ~widened
  /\ \A l \in { All, Two, One } : starts[l] <= 1

\* the combinations of a stack that match exactly one element
UniqueAt(stack) ==
  { m \in 1..Len(combinations(stack, <<>>)) :
      unique(document, combinations(stack, <<>>)[m]) = "yes" }

\* C9: a path findUniquePath found among its own candidates is unique, no
\* unique combination is cheaper, and none of equal penalty was generated
\* earlier; it returns null only when no combination is unique
C9_FirstUniqueByPenalty ==
  \A k \in 1..Len(frames) :
    LET f == frames[k]
        cs == combinations(f.stack, <<>>)
    IN  /\ (f.pc = "ret" /\ f.direct /\ f.ret # <<>>) =>
             \E j \in UniqueAt(f.stack) :
               /\ cs[j] = f.ret
               /\ \A m \in UniqueAt(f.stack) :
                    \/ penalty(cs[m]) > penalty(f.ret)
                    \/ penalty(cs[m]) = penalty(f.ret) /\ m >= j
        /\ ((f.pc = "ret" /\ f.direct /\ f.ret = <<>>)
              \/ (f.pc = "find" /\ f.k > Len(f.paths)))
             => UniqueAt(f.stack) = {}

\* C9 happens: the path found is not the first combination generated, and
\* a dearer unique combination was generated before it
C9_Witness ==
  \E k \in 1..Len(frames) :
    LET f == frames[k]
        cs == combinations(f.stack, <<>>)
    IN  /\ f.pc = "ret"
        /\ f.direct
        /\ f.ret # <<>>
        /\ \E m \in UniqueAt(f.stack) :
             /\ penalty(cs[m]) > penalty(f.ret)
             /\ \E j \in (m + 1)..Len(cs) : cs[j] = f.ret

\* the most calls of unique optimize can make for a path of n Nodes: each
\* of the n - 2 removals is tested and, if accepted, optimized in turn
RECURSIVE MaxOptimizeQueries(_)
MaxOptimizeQueries(n) ==
  IF n <= 2 THEN 0 ELSE (n - 2) * (1 + MaxOptimizeQueries(n - 1))

KeepsEnds(path) ==
  /\ path # <<>>
  /\ path[1] = found[1]
  /\ path[Len(path)] = found[Len(found)]

\* C10 as claimed: optimize makes at most n^2 calls of unique for a found
\* path of n Nodes, and never removes the first or the last Node
C10_QuadraticOptimize ==
  found # <<>> =>
    /\ optQueries <= Len(found) * Len(found)
    /\ \A k \in 1..Len(optimized) : KeepsEnds(optimized[k])

\* C10 amended: optimize makes at most T(n) calls of unique, T(2) = 0 and
\* T(n) = (n - 2) * (1 + T(n - 1)), which is 1, 4, 15, 64 for n = 3..6 and
\* above n^2 from n = 6 on, and never removes the first or the last Node
C10_RecursiveOptimizeBound ==
  found # <<>> =>
    /\ optQueries <= MaxOptimizeQueries(Len(found))
    /\ \A k \in 1..Len(optimized) : KeepsEnds(optimized[k])

\* C10 happens: every removal of a six-Node path was accepted
C10_Witness ==
  /\ Len(found) = 6
  /\ optQueries = MaxOptimizeQueries(6)
  /\ optQueries > Len(found) * Len(found)

====
